---- MODULE Spec2Model ----
(***************************************************************************)
(* Model of the vault updater src/update_vods.ts: one process run is       *)
(* warm-up, login, load of the stored snapshot, the listing loop, the      *)
(* merge loop with its detail fetches, the sort and the save.  Each await  *)
(* of a network response is a step boundary; the snapshot file and the     *)
(* remote state outlive a run, everything else is rebuilt by every run.    *)
(***************************************************************************)
EXTENDS Integers, Sequences, FiniteSets, TLC

\* ------------------------------------------------------------------ bounds
\* Longest listing response the remote returns.
MaxList == 2
\* Listing requests after which the model stops following a run.
MaxPages == 2
\* Process runs followed.
MaxRuns == 2

\* ------------------------------------------------------------------ values
\* undefined in a string-valued place (JSON.stringify drops such keys, ??
\* skips them).
NoVal == "undefined"
\* undefined in a number-valued place.
NoNum == -1
\* undefined in an array- or object-valued place; Some(x) is a value there.
None == << >>
Some(x) == <<x>>
\* A value that is present and is not an array.
NotArray == <<"not", "array">>
\* Number(new Date(undefined)), and the difference of two keys one of which
\* is that.
NaN == -2

\* The small page size that lets a listing fill a page, and the default.
PageLimitSmall == 2
PageLimitDefault == 100
PageLimits == {PageLimitSmall, PageLimitDefault}

\* VAULT_TOTP: unset, or a one-time-password.
TotpValues == {NoVal, "123456"}
USER == "alice"
\* VAULT_TARGET_USER: unset, or another user's name.
OverrideValues == {NoVal, "bob"}
\* The environments a process is started in: every one-time-password and
\* page size without an override, and one with the override.
Environments ==
  {<<t, p, NoVal>> : t \in TotpValues, p \in PageLimits}
  \cup {<<NoVal, PageLimitDefault, o>> : o \in OverrideValues}
BASE == "https://vault.example"

\* ------------------------------------------------------------ raw records
RawVod(id, title, name, createdAt) ==
  [ID |-> id, title |-> title, name |-> name, channel |-> NoVal,
   twitch_channel |-> "chan", twitch_createdAt |-> createdAt,
   twitch_duration |-> NoNum, duration |-> 60, twitch_ID |-> NoVal]

\* Records the remote may list: three entries (one without a timestamp, one
\* without a title) and one record without an ID.
RawPool ==
  { RawVod("1", "a", NoVal, 100),
    RawVod("2", NoVal, "c", NoNum),
    RawVod("3", NoVal, NoVal, 300),
    RawVod(NoVal, "x", NoVal, 200) }

RECURSIVE SeqsUpTo(_, _)
SeqsUpTo(S, n) ==
  IF n = 0 THEN {<< >>}
  ELSE LET shorter == SeqsUpTo(S, n - 1)
       IN  shorter \cup {Append(s, x) : s \in {t \in shorter : Len(t) = n - 1}, x \in S}

\* What the listing endpoint answers under "data": the remote answers
\* every listing request of every run with the same one.
Listings == {Some(l) : l \in SeqsUpTo(RawPool, MaxList)} \cup {NotArray}

RawFile(fileId, id, fileName, name, raw, size, fileSize, url) ==
  [fileId |-> fileId, id |-> id, versionId |-> NoVal, fileName |-> fileName,
   name |-> name, fileSizeRaw |-> raw, size |-> size, fileSize |-> fileSize,
   downloadUrl |-> NoVal, url |-> url, contentType |-> NoVal,
   mimeType |-> "video/mp4", metadata |-> None]

RawFileA == RawFile("fa", NoVal, "a.mp4", NoVal, 10, NoNum, NoVal, "https://dl/a")
RawFileB == RawFile(NoVal, "fb", NoVal, "b.mkv", NoNum, 20, "20 B", "https://dl/b")

\* Bodies of the detail endpoint: files under data, files under files, and
\* neither key.
BodyUnderData == [data |-> Some(<<RawFileA>>), files |-> None]
BodyUnderFiles == [data |-> None, files |-> Some(<<RawFileB>>)]
BodyWithout == [data |-> None, files |-> None]
DetailBodies == {BodyUnderData, BodyUnderFiles, BodyWithout}

IsArray(x) == Len(x) = 1

\* a ?? b, for strings, for numbers and for arrays/objects
Coalesce(a, b) == IF a # NoVal THEN a ELSE b
CoalesceNum(a, b) == IF a # NoNum THEN a ELSE b
CoalesceObj(a, b) == IF a # None THEN a ELSE b

\* ------------------------------------------------------------ stored shape
mapFileInfoToStoredFile(f) ==
  [fileId      |-> Coalesce(f.fileId, Coalesce(f.id, Coalesce(f.versionId, NoVal))),
   fileName    |-> Coalesce(f.fileName, Coalesce(f.name, NoVal)),
   fileSizeRaw |-> IF f.fileSizeRaw # NoNum THEN f.fileSizeRaw
                   ELSE IF f.size # NoNum THEN f.size ELSE NoNum,
   fileSize    |-> Coalesce(f.fileSize,
                     IF f.fileSizeRaw # NoNum THEN ToString(f.fileSizeRaw) \o " B"
                     ELSE NoVal),
   downloadUrl |-> Coalesce(f.downloadUrl, Coalesce(f.url, NoVal)),
   contentType |-> Coalesce(f.contentType, Coalesce(f.mimeType, NoVal)),
   metadata    |-> CoalesceObj(f.metadata, None)]

MapFiles(s) == [k \in 1..Len(s) |-> mapFileInfoToStoredFile(s[k])]

\* The array fetchFileInfo returns for a parsed body.
FileInfoArray(j) ==
  LET arr == CoalesceObj(j.data, CoalesceObj(j.files, Some(<< >>)))
  IN  IF IsArray(arr) THEN arr[1] ELSE << >>

StoredVod(id, title, recordedAt, createdAt, files, fetchedAt) ==
  [id |-> id, title |-> title, channel |-> "chan", recorded_at |-> recordedAt,
   created_at |-> createdAt, duration_seconds |-> 60, twitch_id |-> NoVal,
   files |-> files, filesFetchedAt |-> fetchedAt]

\* normalizeVod: None for its null.  The object it builds has the keys id,
\* title, channel, created_at, duration_seconds and twitch_id as own
\* properties, undefined where the raw record has no value; recorded_at,
\* files and filesFetchedAt are no keys of it.
normalizeVod(v) ==
  IF v.ID = NoVal THEN None
  ELSE Some([id |-> v.ID,
             title |-> Coalesce(v.title, Coalesce(v.name, NoVal)),
             channel |-> Coalesce(v.channel, Coalesce(v.twitch_channel, NoVal)),
             recorded_at |-> NoNum,
             created_at |-> CoalesceNum(v.twitch_createdAt, NoNum),
             duration_seconds |-> CoalesceNum(v.twitch_duration, CoalesceNum(v.duration, NoNum)),
             twitch_id |-> Coalesce(v.twitch_ID, NoVal),
             files |-> None,
             filesFetchedAt |-> NoNum])

\* A merge that leaves filesFetchedAt as the stored entry has it.
SpreadNoStamp(old, v, files, fetchedAt) ==
  [v EXCEPT !.recorded_at = IF old = None THEN NoNum ELSE old[1].recorded_at,
            !.files = files,
            !.filesFetchedAt = IF old = None THEN NoNum ELSE old[1].filesFetchedAt]

\* { ...old, ...v, files, filesFetchedAt } for a normalized v: the own keys
\* of v win, undefined values included; old is None when the map has no
\* entry; recorded_at is no key of v and stays old's.
Spread(old, v, files, fetchedAt) ==
  [v EXCEPT !.recorded_at = IF old = None THEN NoNum ELSE old[1].recorded_at,
            !.files = files,
            !.filesFetchedAt = fetchedAt]

\* needsFileInfo without its test of filesFetchedAt.
needsFileInfoNoStamp(old) ==
  IF old = None THEN TRUE
  ELSE IF old[1].files = None \/ old[1].files = Some(<< >>) THEN TRUE
  ELSE FALSE

\* needsFileInfo with the test of filesFetchedAt the wrong way round.
needsFileInfoStampInverted(old) ==
  IF old = None THEN TRUE
  ELSE IF old[1].files = None \/ old[1].files = Some(<< >>) THEN TRUE
  ELSE IF old[1].filesFetchedAt # NoNum THEN TRUE
  ELSE FALSE

\* old is None for undefined.
needsFileInfo(old) ==
  IF old = None THEN TRUE
  ELSE IF old[1].files = None \/ old[1].files = Some(<< >>) THEN TRUE
  ELSE IF old[1].filesFetchedAt = NoNum THEN TRUE
  ELSE FALSE

\* ------------------------------------------------------------------ sort
\* Number(new Date(a.recorded_at ?? a.created_at)): the number itself, NaN
\* for undefined.
TimeKey(a) ==
  LET t == CoalesceNum(a.recorded_at, a.created_at)
  IN  IF t = NoNum THEN NaN ELSE t

\* The comparator of the final sort, as Array.prototype.sort reads it: a
\* NaN result counts as +0.
Compare(a, b) ==
  LET ta == TimeKey(a)
      tb == TimeKey(b)
  IN  IF ta = NaN \/ tb = NaN THEN 0 ELSE tb - ta

\* Array.prototype.sort of the runtime (V8, which Deno embeds) on an array
\* shorter than 64: the initial run is counted (and reversed when strictly
\* descending under the comparator), the rest is inserted by binary search.
RECURSIVE ExtendRun(_, _, _)
ExtendRun(w, k, isDescending) ==
  IF k > Len(w) THEN k - 1
  ELSE LET order == Compare(w[k], w[k - 1])
       IN  IF (isDescending /\ order >= 0) \/ (~isDescending /\ order < 0)
           THEN k - 1
           ELSE ExtendRun(w, k + 1, isDescending)

ReversePrefix(w, n) == [k \in 1..Len(w) |-> IF k <= n THEN w[n + 1 - k] ELSE w[k]]

RECURSIVE BinarySearch(_, _, _, _)
BinarySearch(w, pivot, left, right) ==
  IF left >= right THEN left
  ELSE LET mid == left + ((right - left) \div 2)
       IN  IF Compare(pivot, w[mid]) < 0
           THEN BinarySearch(w, pivot, left, mid)
           ELSE BinarySearch(w, pivot, mid + 1, right)

InsertAt(w, start, pos) ==
  [k \in 1..Len(w) |->
     IF k < pos THEN w[k]
     ELSE IF k = pos THEN w[start]
     ELSE IF k <= start THEN w[k - 1]
     ELSE w[k]]

RECURSIVE BinaryInsertionSort(_, _)
BinaryInsertionSort(w, start) ==
  IF start > Len(w) THEN w
  ELSE BinaryInsertionSort(InsertAt(w, start, BinarySearch(w, w[start], 1, start)),
                           start + 1)

SortVods(w) ==
  IF Len(w) < 2 THEN w
  ELSE LET isDescending == Compare(w[2], w[1]) < 0
           runLength == ExtendRun(w, 3, isDescending)
           run == IF isDescending THEN ReversePrefix(w, runLength) ELSE w
       IN  BinaryInsertionSort(run, runLength + 1)

\* ------------------------------------------------------------------- maps
\* A Map keeps its keys in insertion order; setting a key that is present
\* replaces the value in place.  mergedById holds entries, keyed by id.
MapHas(m, id) == \E k \in 1..Len(m) : m[k].id = id
MapGet(m, id) ==
  IF MapHas(m, id) THEN Some(m[CHOOSE k \in 1..Len(m) : m[k].id = id]) ELSE None
\* A map that keeps every value it is given, whatever the key.
MapSetAppend(m, v) == Append(m, v)

MapSet(m, v) ==
  IF MapHas(m, v.id) THEN [k \in 1..Len(m) |-> IF m[k].id = v.id THEN v ELSE m[k]]
  ELSE Append(m, v)

\* A merge that does not seed the map with the stored entries.
MapFromVodsNothing(m, vods) == m

RECURSIVE MapFromVods(_, _)
MapFromVods(m, vods) ==
  IF vods = << >> THEN m ELSE MapFromVods(MapSet(m, Head(vods)), Tail(vods))

\* ------------------------------------------------------------------ store
NoMeta == [generatedAt |-> NoNum, baseUrl |-> NoVal, targetUser |-> NoVal, total |-> NoNum]
MissingFile == [kind |-> "missing", meta |-> NoMeta, vods |-> << >>]
CorruptFile == [kind |-> "corrupt", meta |-> NoMeta, vods |-> << >>]
StoreOf(generatedAt, targetUser, vods) ==
  [kind |-> "store",
   meta |-> [generatedAt |-> generatedAt, baseUrl |-> BASE,
             targetUser |-> targetUser, total |-> Len(vods)],
   vods |-> vods]

\* loadStore: None for its null (no file, or a file that does not parse).
loadStore(f) == IF f.kind = "store" THEN Some(f) ELSE None

\* existing?.vods ?? []
VodsOf(store) == IF store = None THEN << >> ELSE store[1].vods

byIdSet(store) == {VodsOf(store)[k].id : k \in 1..Len(VodsOf(store))}

StoredFileA == mapFileInfoToStoredFile(RawFileA)

\* Entries a snapshot written before the first run may hold: complete, with
\* an empty file list, without a file list, with files but no
\* filesFetchedAt, with a recorded_at, and one the remote no longer lists.
PriorComplete == StoredVod("1", "old", NoNum, 100, Some(<<StoredFileA>>), 0)
PriorEmpty    == StoredVod("1", "old", NoNum, 100, Some(<< >>), 0)
PriorNoFiles  == StoredVod("1", "old", NoNum, 100, None, NoNum)
PriorStale    == StoredVod("1", "old", NoNum, 100, Some(<<StoredFileA>>), NoNum)
PriorRecorded == StoredVod("3", "old3", 200, 50, Some(<<StoredFileA>>), 0)
PriorUnlisted == StoredVod("4", "old4", NoNum, 100, Some(<<StoredFileA>>), 0)
\* A second entry with the id of PriorUnlisted, as a snapshot edited by
\* hand may hold it.
PriorTwin     == StoredVod("4", "twin", NoNum, 100, Some(<<StoredFileA>>), 0)

InitialFiles ==
  { MissingFile, CorruptFile }
  \cup { StoreOf(0, USER, <<p>>) :
           p \in {PriorComplete, PriorEmpty, PriorNoFiles, PriorStale, PriorRecorded} }
  \cup { StoreOf(0, USER, <<PriorRecorded, PriorUnlisted>>),
         StoreOf(0, USER, <<PriorTwin, PriorRecorded, PriorUnlisted>>) }

\* ---------------------------------------------------------------- session
\* The cookie jar is a Map from cookie name to value.
JarHas(j, name) == \E k \in 1..Len(j) : j[k].name = name
JarGet(j, name) ==
  IF JarHas(j, name) THEN j[CHOOSE k \in 1..Len(j) : j[k].name = name].value ELSE NoVal
\* A jar that keeps the first value it was given for a name.
JarSetKeepFirst(j, c) == IF JarHas(j, c.name) THEN j ELSE Append(j, c)

JarSet(j, c) ==
  IF JarHas(j, c.name)
  THEN [k \in 1..Len(j) |-> IF j[k].name = c.name THEN c ELSE j[k]]
  ELSE Append(j, c)

RECURSIVE setCookiesFrom(_, _)
setCookiesFrom(j, cookies) ==
  IF cookies = << >> THEN j
  ELSE setCookiesFrom(JarSet(j, Head(cookies)), Tail(cookies))

XsrfCookie == [name |-> "XSRF-TOKEN", value |-> "tok%3D1"]
SessionCookie == [name |-> "session", value |-> "s1"]
\* The session cookie of a visitor who has not logged in, and an
\* anti-forgery cookie the server has cleared.
PreSessionCookie == [name |-> "session", value |-> "s0"]
XsrfCleared == [name |-> "XSRF-TOKEN", value |-> ""]

\* Set-Cookie headers of the responses.
WarmupCookies == {<< >>, <<XsrfCookie>>, <<XsrfCleared, PreSessionCookie>>}
LoginCookies == {<<SessionCookie>>}
ApiCookies == {<< >>}

\* decodeURIComponent on the cookie values in use.
decodeURIComponent(v) == IF v = "tok%3D1" THEN "tok=1" ELSE v

cookieHeader(j) == IF Len(j) = 0 THEN None ELSE Some(j)

xsrfHeaderValue(j) ==
  LET v == JarGet(j, "XSRF-TOKEN")
  IN  IF v = NoVal \/ v = "" THEN NoVal ELSE decodeURIComponent(v)

\* A request as it leaves: what it asks for and the headers defaultHeaders
\* builds from the jar.  page is NoNum when the URL carries no page.
Request(kind, j, pageParam, targetUser, ids, totp) ==
  [kind |-> kind, page |-> pageParam, targetUser |-> targetUser, ids |-> ids,
   totp |-> totp,
   Cookie |-> cookieHeader(j),
   XXsrfToken |-> xsrfHeaderValue(j),
   XCsrfToken |-> xsrfHeaderValue(j)]

Identity == [ID |-> "7", username |-> USER]

\* Login responses: status, and the parsed body's error and data (a body
\* that does not parse reads as {}: no error, no data).
LoginResponses ==
  [ok : BOOLEAN, error : {NoVal, "TOTP_REQUIRED", "INVALID"}, data : {None, Some(Identity)}]

ErrLoginHttp == "Login HTTP error"
ErrLoginTotp == "Login requires TOTP; set VAULT_TOTP and retry."
ErrLoginMissing == "Login: missing data"
ErrLoginServer(e) == "Login error: " \o e

\* login without the "&& !TOTP" of its TOTP_REQUIRED test.
LoginErrorTotpAlways(r, totp) ==
  IF ~r.ok THEN ErrLoginHttp
  ELSE IF r.error = "TOTP_REQUIRED" THEN ErrLoginTotp
  ELSE IF r.error # NoVal THEN ErrLoginServer(r.error)
  ELSE IF r.data = None THEN ErrLoginMissing
  ELSE NoVal

\* login reading the body's error before the status.
LoginErrorBodyFirst(r, totp) ==
  IF r.error = "TOTP_REQUIRED" /\ totp = NoVal THEN ErrLoginTotp
  ELSE IF r.error # NoVal THEN ErrLoginServer(r.error)
  ELSE IF ~r.ok THEN ErrLoginHttp
  ELSE IF r.data = None THEN ErrLoginMissing
  ELSE NoVal

\* The error login throws for a response, NoVal when it returns j.data.
LoginError(r, totp) ==
  IF ~r.ok THEN ErrLoginHttp
  ELSE IF r.error = "TOTP_REQUIRED" /\ totp = NoVal THEN ErrLoginTotp
  ELSE IF r.error # NoVal THEN ErrLoginServer(r.error)
  ELSE IF r.data = None THEN ErrLoginMissing
  ELSE NoVal

\* ------------------------------------------------------------------ state
VARIABLES
  TOTP, PAGE_LIMIT,          \* the environment, read when the process starts
  TARGET_USER_OVERRIDE,
  listing, details,          \* the remote, as far as the runs have read it:
                             \* its listing, and its detail body per id
  file,                      \* the snapshot file
  pc, jar, inflight, user, existing, seen, all, page,
  mergedById, idx, newCount, refreshedCount, exitCode, err,
  now,                       \* the time of the run (one run, one instant)
  reqLog,                    \* the requests this run has issued, in order
  lastStatus,                \* kind and status of the response read last
  loginResp,                 \* the response login read
  warmed,                    \* the warm-up response arrived with success
  warmCookies,               \* the cookies the warm-up response set
  setCookies,                \* the cookies of each response read, in order
  finalSeen,                 \* a listing page of this run was a final one
  fileAtStart,               \* the file as this run found it
  prevOut                    \* the snapshot the run before wrote, if it did

env == <<TOTP, PAGE_LIMIT, TARGET_USER_OVERRIDE>>
remote == <<listing, details>>
session == <<jar, inflight, user>>
merge == <<existing, seen, all, page, mergedById, idx, newCount, refreshedCount>>
observed == <<lastStatus, loginResp, warmed, warmCookies, setCookies, finalSeen>>
history == <<now, reqLog, observed, fileAtStart, prevOut>>
vars == <<env, remote, file, pc, session, merge, exitCode, err, history>>

ListedIds == {"1", "2", "3"}

\* What the detail endpoint of the remote answers, per id: three remotes,
\* in which every id has each of the bodies once.
DetailAnswers ==
  { [i \in ListedIds |-> CASE i = "1" -> BodyUnderData
                           [] i = "2" -> BodyUnderFiles
                           [] OTHER   -> BodyWithout],
    [i \in ListedIds |-> CASE i = "1" -> BodyWithout
                           [] i = "2" -> BodyUnderData
                           [] OTHER   -> BodyUnderFiles],
    [i \in ListedIds |-> CASE i = "1" -> BodyUnderFiles
                           [] i = "2" -> BodyWithout
                           [] OTHER   -> BodyUnderData] }

\* The remotes that answer body for id and what has been read before.
AnswersWith(id, body) ==
  {m \in DetailAnswers :
     /\ m[id] = body
     /\ \A i \in ListedIds : details[i] # None => details[i][1] = m[i]}

Init ==
  /\ \E e \in Environments :
       /\ TOTP = e[1]
       /\ PAGE_LIMIT = e[2]
       /\ TARGET_USER_OVERRIDE = e[3]
  /\ listing = None
  /\ details = [i \in ListedIds |-> None]
  /\ file \in InitialFiles
  /\ fileAtStart = file
  /\ prevOut = None
  /\ now = 1
  /\ pc = "warmup"
  /\ jar = << >>
  /\ inflight = {}
  /\ user = None
  /\ existing = None
  /\ seen = {}
  /\ all = << >>
  /\ page = 1
  /\ mergedById = << >>
  /\ idx = 1
  /\ newCount = 0
  /\ refreshedCount = 0
  /\ exitCode = NoNum
  /\ err = NoVal
  /\ reqLog = << >>
  /\ lastStatus = <<"none", "ok">>
  /\ loginResp = None
  /\ warmed = FALSE
  /\ warmCookies = None
  /\ setCookies = << >>
  /\ finalSeen = FALSE

\* A catch handler that saves what the run has merged before it exits.
ThrowSaving(e) ==
  /\ pc' = "failed"
  /\ err' = e
  /\ exitCode' = 1
  /\ file' = StoreOf(now, NoVal, mergedById)
  /\ jar' = << >>
  /\ inflight' = {}
  /\ user' = None
  /\ existing' = None
  /\ seen' = {}
  /\ all' = << >>
  /\ page' = 1
  /\ mergedById' = << >>
  /\ idx' = 1
  /\ newCount' = 0
  /\ refreshedCount' = 0

\* A thrown error reaches main().catch: the error is printed and the
\* process exits with 1, and with it goes everything it held in memory.
Throw(e) ==
  /\ pc' = "failed"
  /\ err' = e
  /\ exitCode' = 1
  /\ UNCHANGED file
  /\ jar' = << >>
  /\ inflight' = {}
  /\ user' = None
  /\ existing' = None
  /\ seen' = {}
  /\ all' = << >>
  /\ page' = 1
  /\ mergedById' = << >>
  /\ idx' = 1
  /\ newCount' = 0
  /\ refreshedCount' = 0

Send(r) ==
  /\ inflight' = inflight \cup {r}
  /\ reqLog' = Append(reqLog, r)

Awaited(kind) == \E r \in inflight : r.kind = kind

\* fetchWithCookies, from the response on: the jar takes its cookies.
Receive(kind, cookies) ==
  /\ inflight' = {r \in inflight : r.kind # kind}
  /\ jar' = setCookiesFrom(jar, cookies)
  /\ setCookies' = Append(setCookies, cookies)

\* ---------------------------------------------------------------- warm-up
\* warmup() called without await: main goes on while the request is out.
WarmupSendNoAwait ==
  /\ pc = "warmup"
  /\ Send(Request("warmup", jar, NoNum, NoVal, NoVal, NoVal))
  /\ pc' = "login"
  /\ UNCHANGED <<env, remote, file, jar, user, merge, exitCode, err,
                 now, observed, fileAtStart, prevOut>>

WarmupSend ==
  /\ pc = "warmup"
  /\ Send(Request("warmup", jar, NoNum, NoVal, NoVal, NoVal))
  /\ pc' = "warmup_wait"
  /\ UNCHANGED <<env, remote, file, jar, user, merge, exitCode, err,
                 now, observed, fileAtStart, prevOut>>

WarmupRecv ==
  /\ pc = "warmup_wait"
  /\ Awaited("warmup")
  /\ \E ok \in BOOLEAN, cookies \in WarmupCookies :
       /\ lastStatus' = <<"warmup", IF ok THEN "ok" ELSE "http_error">>
       /\ IF ok
          THEN /\ Receive("warmup", cookies)
               /\ pc' = "login"
               /\ warmed' = TRUE
               /\ warmCookies' = Some(cookies)
               /\ UNCHANGED <<user, merge, file, exitCode, err>>
          ELSE /\ Throw("Warm-up failed")
               /\ UNCHANGED <<warmed, warmCookies, setCookies>>
  /\ UNCHANGED <<env, remote, now, reqLog, loginResp, finalSeen, fileAtStart, prevOut>>

\* ------------------------------------------------------------------ login
LoginSend ==
  /\ pc = "login"
  /\ Send(Request("login", jar, NoNum, NoVal, NoVal, TOTP))
  /\ pc' = "login_wait"
  /\ UNCHANGED <<env, remote, file, jar, user, merge, exitCode, err,
                 now, observed, fileAtStart, prevOut>>

LoginRecv ==
  /\ pc = "login_wait"
  /\ Awaited("login")
  /\ \E r \in LoginResponses, cookies \in LoginCookies :
       /\ loginResp' = Some(r)
       /\ lastStatus' = <<"login", IF r.ok THEN "ok" ELSE "http_error">>
       /\ IF LoginError(r, TOTP) = NoVal
          THEN /\ Receive("login", cookies)
               /\ user' = r.data
               /\ pc' = "load"
               /\ UNCHANGED <<merge, file, exitCode, err>>
          ELSE /\ Throw(LoginError(r, TOTP))
               /\ UNCHANGED setCookies
  /\ UNCHANGED <<env, remote, now, reqLog, warmed, warmCookies, finalSeen,
                 fileAtStart, prevOut>>

\* const targetUser = user.username
targetUser == user[1].username

\* ------------------------------------------------------------- load store
\* A load that throws when there is no file or the file does not parse.
LoadStoreThrowing ==
  /\ pc = "load"
  /\ IF loadStore(file) = None
     THEN Throw("Snapshot unreadable")
     ELSE /\ existing' = loadStore(file)
          /\ seen' = byIdSet(loadStore(file))
          /\ pc' = "list"
          /\ UNCHANGED <<file, session, all, page, mergedById, idx,
                         newCount, refreshedCount, exitCode, err>>
  /\ UNCHANGED <<env, remote, history>>

LoadStore ==
  /\ pc = "load"
  /\ existing' = loadStore(file)
  /\ seen' = byIdSet(loadStore(file))
  /\ pc' = "list"
  /\ UNCHANGED <<env, remote, file, session, all, page, mergedById, idx,
                 newCount, refreshedCount, exitCode, err, history>>

\* ---------------------------------------------------------------- listing
\* fetchVodPage(page, limit, targetUser): the URL carries targetUser only.
ListSend ==
  /\ pc = "list"
  /\ page <= MaxPages
  /\ Send(Request("list", jar, NoNum, targetUser, NoVal, NoVal))
  /\ pc' = "list_wait"
  /\ UNCHANGED <<env, remote, file, jar, user, merge, exitCode, err,
                 now, observed, fileAtStart, prevOut>>

\* if (!Array.isArray(list.data) || list.data.length === 0) break
StopsBeforePush(data) == ~IsArray(data) \/ Len(data[1]) = 0

\* The listing loop without its last-page test.
StopsAfterPushNever(data, limit) == FALSE

\* if (list.data.length < PAGE_LIMIT) break
StopsAfterPush(data, limit) == Len(data[1]) < limit

RECURSIVE Normalized(_)
Normalized(raws) ==
  IF raws = << >> THEN << >>
  ELSE normalizeVod(Head(raws)) \o Normalized(Tail(raws))

Statuses == {"ok", "http_error", "bad_json"}

\* The listings the remote may answer with, given what it answered before.
ListingsNow == IF listing = None THEN Listings ELSE {listing}

ListRecv ==
  /\ pc = "list_wait"
  /\ Awaited("list")
  /\ \E status \in Statuses, cookies \in ApiCookies :
       /\ lastStatus' = <<"list", status>>
       /\ IF status # "ok"
          THEN /\ Throw(IF status = "http_error" THEN "VOD list failed" ELSE "SyntaxError")
               /\ UNCHANGED <<finalSeen, setCookies, listing>>
          ELSE \E data \in ListingsNow :
               /\ listing' = data
               /\ Receive("list", cookies)
               /\ finalSeen' = (finalSeen \/ ~IsArray(data)
                                  \/ Len(data[1]) = 0
                                  \/ Len(data[1]) < PAGE_LIMIT)
               /\ IF StopsBeforePush(data)
                  THEN /\ pc' = "merge"
                       /\ mergedById' = MapFromVods(<< >>, VodsOf(existing))
                       /\ UNCHANGED <<all, page>>
                  ELSE /\ all' = all \o Normalized(data[1])
                       /\ IF StopsAfterPush(data, PAGE_LIMIT)
                          THEN /\ pc' = "merge"
                               /\ mergedById' = MapFromVods(<< >>, VodsOf(existing))
                               /\ UNCHANGED page
                          ELSE /\ pc' = "list"
                               /\ page' = page + 1
                               /\ UNCHANGED mergedById
               /\ UNCHANGED <<user, existing, seen, idx, newCount, refreshedCount,
                              file, exitCode, err>>
  /\ UNCHANGED <<env, details, now, reqLog, loginResp, warmed, warmCookies,
                 fileAtStart, prevOut>>

\* ------------------------------------------------------------------ merge
old == MapGet(mergedById, all[idx].id)

\* A merge loop that fetches the details of every listed entry.
mustFetchAlways == TRUE

\* needsFileInfo(old) || !seen.has(v.id)
mustFetch == needsFileInfo(old) \/ all[idx].id \notin seen

\* fetchFileInfo called without await: the loop goes on to the next entry
\* while the request is out.
MergeFetchNoAwait ==
  /\ pc = "merge"
  /\ idx <= Len(all)
  /\ mustFetch
  /\ IF all[idx].id \notin seen
     THEN newCount' = newCount + 1 /\ UNCHANGED refreshedCount
     ELSE refreshedCount' = refreshedCount + 1 /\ UNCHANGED newCount
  /\ Send(Request("detail", jar, NoNum, NoVal, all[idx].id, NoVal))
  /\ idx' = idx + 1
  /\ UNCHANGED <<env, remote, file, pc, jar, user, existing, seen, all, page,
                 mergedById, exitCode, err,
                 now, observed, fileAtStart, prevOut>>

MergeFetch ==
  /\ pc = "merge"
  /\ idx <= Len(all)
  /\ mustFetch
  /\ IF all[idx].id \notin seen
     THEN newCount' = newCount + 1 /\ UNCHANGED refreshedCount
     ELSE refreshedCount' = refreshedCount + 1 /\ UNCHANGED newCount
  /\ Send(Request("detail", jar, NoNum, NoVal, all[idx].id, NoVal))
  /\ pc' = "detail_wait"
  /\ UNCHANGED <<env, remote, file, jar, user, existing, seen, all, page,
                 mergedById, idx, exitCode, err,
                 now, observed, fileAtStart, prevOut>>

DetailRecv ==
  /\ pc = "detail_wait"
  /\ Awaited("detail")
  /\ \E status \in Statuses, cookies \in ApiCookies, body \in DetailBodies :
       /\ lastStatus' = <<"detail", status>>
       /\ IF status # "ok"
          THEN /\ Throw(IF status = "http_error" THEN "file_info failed" ELSE "SyntaxError")
               /\ UNCHANGED <<details, setCookies>>
          ELSE /\ AnswersWith(all[idx].id, body) # {}
               /\ Receive("detail", cookies)
               /\ details' = [details EXCEPT ![all[idx].id] = Some(body)]
               /\ mergedById' =
                    MapSet(mergedById,
                           Spread(old, all[idx], Some(MapFiles(FileInfoArray(body))), now))
               /\ idx' = idx + 1
               /\ pc' = "merge"
               /\ UNCHANGED <<user, existing, seen, all, page, newCount, refreshedCount,
                              file, exitCode, err>>
  /\ UNCHANGED <<env, listing, now, reqLog, loginResp, warmed, warmCookies, finalSeen,
                 fileAtStart, prevOut>>

MergeKeep ==
  /\ pc = "merge"
  /\ idx <= Len(all)
  /\ ~mustFetch
  /\ mergedById' =
       MapSet(mergedById, Spread(old, all[idx], old[1].files, old[1].filesFetchedAt))
  /\ idx' = idx + 1
  /\ UNCHANGED <<env, remote, file, pc, session, existing, seen, all, page,
                 newCount, refreshedCount, exitCode, err, history>>

\* ---------------------------------------------------------- sort and save
SortAndSave ==
  /\ pc = "merge"
  /\ idx > Len(all)
  /\ file' = StoreOf(now, targetUser, SortVods(mergedById))
  /\ pc' = "done"
  /\ exitCode' = 0
  /\ UNCHANGED <<env, remote, session, merge, err, history>>

\* ---------------------------------------------------------------- next run
\* The process has exited with a snapshot written; the scheduler starts it
\* again later.  (The run after a failed run finds the file the failed run
\* found and left, and is a first run again.)
StartRun ==
  /\ pc = "done"
  /\ now < MaxRuns
  /\ now' = now + 1
  /\ prevOut' = Some(file)
  /\ fileAtStart' = file
  /\ pc' = "warmup"
  /\ jar' = << >>
  /\ inflight' = {}
  /\ user' = None
  /\ existing' = None
  /\ seen' = {}
  /\ all' = << >>
  /\ page' = 1
  /\ mergedById' = << >>
  /\ idx' = 1
  /\ newCount' = 0
  /\ refreshedCount' = 0
  /\ exitCode' = NoNum
  /\ err' = NoVal
  /\ reqLog' = << >>
  /\ lastStatus' = <<"none", "ok">>
  /\ loginResp' = None
  /\ warmed' = FALSE
  /\ warmCookies' = None
  /\ setCookies' = << >>
  /\ finalSeen' = FALSE
  /\ UNCHANGED <<env, remote, file>>

Next ==
  \/ WarmupSend
  \/ WarmupRecv
  \/ LoginSend
  \/ LoginRecv
  \/ LoadStore
  \/ ListSend
  \/ ListRecv
  \/ MergeFetch
  \/ DetailRecv
  \/ MergeKeep
  \/ SortAndSave
  \/ StartRun

Spec == Init /\ [][Next]_vars

\* ================================================================= claims
\* What the claims speak of: the snapshot a run found, the listing it
\* collected, the detail requests it issued, and the snapshot it wrote.
PriorVods == VodsOf(loadStore(fileAtStart))
PriorIds == {PriorVods[k].id : k \in 1..Len(PriorVods)}
\* The prior snapshot's entry of an id: the last one, when it holds several.
PriorOf(id) ==
  PriorVods[CHOOSE k \in 1..Len(PriorVods) :
              /\ PriorVods[k].id = id
              /\ \A h \in (k + 1)..Len(PriorVods) : PriorVods[h].id # id]
ListedNow == {all[k].id : k \in 1..Len(all)}
WrittenIds == {file.vods[k].id : k \in 1..Len(file.vods)}
WrittenOf(id) == file.vods[CHOOSE k \in 1..Len(file.vods) : file.vods[k].id = id]
DetailFetches(id) ==
  Cardinality({k \in 1..Len(reqLog) : reqLog[k].kind = "detail" /\ reqLog[k].ids = id})
HasFreshFiles(e) ==
  e.files # None /\ e.files # Some(<< >>) /\ e.filesFetchedAt # NoNum
\* The stored form of what the remote answers for id.
RemoteFiles(id) == Some(MapFiles(FileInfoArray(details[id][1])))

\* C1: an entry the prior snapshot holds with a non-empty file list and a
\* filesFetchedAt, and that the listing returns, gets no detail request in
\* the run, and the snapshot written holds it with the prior file list and
\* the prior filesFetchedAt.
C1_FreshFilesKept ==
  \A id \in PriorIds :
    HasFreshFiles(PriorOf(id)) =>
      /\ DetailFetches(id) = 0
      /\ (pc = "done" /\ id \in ListedNow) =>
           /\ id \in WrittenIds
           /\ WrittenOf(id).files = PriorOf(id).files
           /\ WrittenOf(id).filesFetchedAt = PriorOf(id).filesFetchedAt

\* C1's case: a run has written an entry it kept the files of, with a title
\* the listing changed.
C1_Witness ==
  /\ pc = "done"
  /\ \E id \in PriorIds \cap ListedNow :
       /\ HasFreshFiles(PriorOf(id))
       /\ WrittenOf(id).title # PriorOf(id).title
       /\ WrittenOf(id).files = PriorOf(id).files

\* C2: an entry the listing returns and the prior snapshot does not hold
\* gets exactly one detail request in the run, and its result is the
\* entry's files, with a filesFetchedAt of this run.
C2_ExactlyOneFetch ==
  pc = "done" =>
    \A id \in ListedNow \ PriorIds :
      /\ DetailFetches(id) = 1
      /\ WrittenOf(id).files = RemoteFiles(id)
      /\ WrittenOf(id).filesFetchedAt = now

SameMeta(a, b) ==
  /\ a.kind = b.kind
  /\ a.meta.baseUrl = b.meta.baseUrl
  /\ a.meta.targetUser = b.meta.targetUser
  /\ a.meta.total = b.meta.total

SameButStamp(a, b) == [a EXCEPT !.filesFetchedAt = b.filesFetchedAt] = b

KeyOf(e) == IF e.recorded_at # NoNum THEN e.recorded_at ELSE e.created_at

C5_SortedDescending ==
  pc = "done" =>
    \A i, j \in 1..Len(file.vods) :
      (i < j /\ KeyOf(file.vods[i]) # NoNum /\ KeyOf(file.vods[j]) # NoNum)
        => KeyOf(file.vods[i]) >= KeyOf(file.vods[j])

\* C6: once a listing page has come back with fewer entries than the page
\* size, with none, or with no array, the run issues no listing request.
IssuesListRequest ==
  /\ Len(reqLog') = Len(reqLog) + 1
  /\ reqLog'[Len(reqLog')].kind = "list"

C6_StopsAtFinalPage == [][finalSeen => ~IssuesListRequest]_vars

ListRequests == Cardinality({k \in 1..Len(reqLog) : reqLog[k].kind = "list"})

\* C6's case: a page of one entry, shorter than the page size, ended the
\* enumeration after one request and the run went on to its end.
C6_Witness ==
  /\ pc = "done"
  /\ finalSeen
  /\ Len(all) = 1
  /\ ListRequests = 1

\* C7: the listing loop asks for page after page, so it collects every
\* entry of the remote exactly once, also when the remote holds as many
\* entries as the page size or more.
C7_PagedListing ==
  IsArray(listing) =>
    /\ Len(all) <= Len(Normalized(listing[1]))
    /\ pc \in {"merge", "detail_wait", "done"} => all = Normalized(listing[1])

\* C8: a failed step ends the run: the process has exited with 1 and the
\* snapshot file is the one the run found; the file differs from that one
\* only when the run is done, with every request answered with success.
LoginFails(r) == ~r.ok \/ r.error # NoVal \/ r.data = None

C8_FailureAborts ==
  /\ lastStatus[2] # "ok" => pc = "failed"
  /\ (loginResp # None /\ LoginFails(loginResp[1])) => pc = "failed"
  /\ pc = "failed" => (exitCode = 1 /\ err # NoVal /\ file = fileAtStart)
  /\ file # fileAtStart =>
       (pc = "done" /\ exitCode = 0 /\ inflight = {} /\ lastStatus[2] = "ok")
  /\ pc # "done" => file = fileAtStart

\* C8's case: the second detail request of a run failed, after the first
\* had succeeded, and a snapshot was on file.
C8_Witness ==
  /\ pc = "failed"
  /\ lastStatus = <<"detail", "http_error">>
  /\ Cardinality({k \in 1..Len(reqLog) : reqLog[k].kind = "detail"}) >= 2
  /\ fileAtStart.kind = "store"
  /\ file = fileAtStart

\* C9: with a one-time-password configured and sent, a response of
\* TOTP_REQUIRED makes login fail with the TOTP-required error.
TotpSentAndRequired ==
  /\ TOTP # NoVal
  /\ \E k \in 1..Len(reqLog) : reqLog[k].kind = "login" /\ reqLog[k].totp = TOTP
  /\ loginResp # None
  /\ loginResp[1].ok
  /\ loginResp[1].error = "TOTP_REQUIRED"

C9_TotpErrorWhenSent == TotpSentAndRequired => err = ErrLoginTotp

\* C9, amended: then login fails with the server-reported login error that
\* names TOTP_REQUIRED; the TOTP-required error is thrown only when no
\* one-time-password is configured.
C9_ServerErrorWhenSent ==
  /\ TotpSentAndRequired =>
       (pc = "failed" /\ err = ErrLoginServer("TOTP_REQUIRED") /\ err # ErrLoginTotp)
  /\ err = ErrLoginTotp => TOTP = NoVal

\* C9's case: login has failed on TOTP_REQUIRED although a one-time-password
\* was sent.
C9_Witness == TotpSentAndRequired /\ pc = "failed"

\* C10: a login request leaves only after the warm-up response has come
\* with success and its cookies are in the jar, a listing or detail request
\* only after login has returned an identity, and never is more than one
\* request in flight.
C10_RequestOrder ==
  /\ Cardinality(inflight) <= 1
  /\ \A k \in 1..Len(reqLog) :
       /\ reqLog[k].kind = "login" =>
            /\ warmed
            /\ warmCookies # None
            /\ reqLog[k].Cookie = cookieHeader(setCookiesFrom(<< >>, warmCookies[1]))
            /\ \E h \in 1..(k - 1) : reqLog[h].kind = "warmup"
       /\ reqLog[k].kind \in {"list", "detail"} =>
            /\ loginResp # None
            /\ ~LoginFails(loginResp[1])
            /\ \E h \in 1..(k - 1) : reqLog[h].kind = "login"

\* C10's case: a detail request is in flight, alone, in a session whose
\* warm-up set the anti-forgery cookie.
C10_Witness ==
  /\ pc = "detail_wait"
  /\ Cardinality(inflight) = 1
  /\ warmCookies = Some(<<XsrfCookie>>)
  /\ \E r \in inflight : r.kind = "detail" /\ r.XXsrfToken = "tok=1"

\* C11: a successful run writes every id of the prior snapshot; the entry
\* of an id the listing did not return is written as the prior snapshot
\* holds it, every field unchanged, and no detail request names that id.
C11_AppendOnly ==
  pc = "done" =>
    /\ PriorIds \subseteq WrittenIds
    /\ \A id \in PriorIds \ ListedNow :
         /\ WrittenOf(id) = PriorOf(id)
         /\ DetailFetches(id) = 0

\* C11's case: a run that listed entries has written, next to them, an
\* entry of the prior snapshot that the listing did not return.
C11_Witness ==
  /\ pc = "done"
  /\ ListedNow # {}
  /\ \E id \in PriorIds \ ListedNow :
       /\ WrittenOf(id) = PriorOf(id)
       /\ Len(file.vods) > Cardinality(ListedNow)

\* C12: the map of the merge, and with it every snapshot a run writes,
\* holds no id twice, whatever the listing and the prior snapshot repeat.
HasNoDuplicateId(vods) ==
  \A i, j \in 1..Len(vods) : i < j => vods[i].id # vods[j].id

C12_UniqueIds ==
  /\ HasNoDuplicateId(mergedById)
  /\ pc = "done" => HasNoDuplicateId(file.vods)

\* C12's case: a snapshot has been written by a run whose listing returned
\* an id twice and whose prior snapshot held an id twice.
C12_Witness ==
  /\ pc = "done"
  /\ ~HasNoDuplicateId(all)
  /\ ~HasNoDuplicateId(PriorVods)
  /\ Len(file.vods) >= 2

\* C13: the listing requests name, and the snapshot records, the
\* configured override as target user when one is configured, and the
\* username login returned when none is.
ConfiguredTargetUser ==
  IF TARGET_USER_OVERRIDE # NoVal THEN TARGET_USER_OVERRIDE ELSE Identity.username

C13_OverrideUsed ==
  /\ \A k \in 1..Len(reqLog) :
       reqLog[k].kind = "list" => reqLog[k].targetUser = ConfiguredTargetUser
  /\ pc = "done" => file.meta.targetUser = ConfiguredTargetUser

\* C14: an entry that the prior snapshot and the listing both hold is
\* written with, for each of title, channel, created_at, duration_seconds
\* and twitch_id, the listed value where the listed entry has one and the
\* prior value where it has none, whether or not its files were fetched.
FreshOf(id) ==
  all[CHOOSE k \in 1..Len(all) :
        all[k].id = id /\ \A h \in (k + 1)..Len(all) : all[h].id # id]

C14_FieldOverlay ==
  pc = "done" =>
    \A id \in PriorIds \cap ListedNow :
      LET w == WrittenOf(id)
          f == FreshOf(id)
          o == PriorOf(id)
      IN  /\ w.title = Coalesce(f.title, o.title)
          /\ w.channel = Coalesce(f.channel, o.channel)
          /\ w.created_at = CoalesceNum(f.created_at, o.created_at)
          /\ w.duration_seconds = CoalesceNum(f.duration_seconds, o.duration_seconds)
          /\ w.twitch_id = Coalesce(f.twitch_id, o.twitch_id)

\* C15: no listing request follows a detail request; the detail requests
\* of a run that has not failed name entries in the order of the listing;
\* and a request is issued only when the one before it has been answered.
DetailIds ==
  LET d == SelectSeq(reqLog, LAMBDA r : r.kind = "detail")
  IN  [k \in 1..Len(d) |-> d[k].ids]
AllIdsInOrder == [k \in 1..Len(all) |-> all[k].id]

RECURSIVE IsSubsequence(_, _)
IsSubsequence(d, a) ==
  IF d = << >> THEN TRUE
  ELSE IF a = << >> THEN FALSE
  ELSE IF Head(d) = Head(a) THEN IsSubsequence(Tail(d), Tail(a))
  ELSE IsSubsequence(d, Tail(a))

C15_ListingThenDetailsInOrder ==
  /\ \A i, j \in 1..Len(reqLog) :
       (i < j /\ reqLog[i].kind = "detail") => reqLog[j].kind # "list"
  /\ pc # "failed" => IsSubsequence(DetailIds, AllIdsInOrder)
  /\ Cardinality(inflight) <= 1
  /\ \A r \in inflight : r = reqLog[Len(reqLog)]
  /\ pc = "detail_wait" => reqLog[Len(reqLog)].ids = all[idx].id

\* C15's case: a run has fetched the details of two listed entries, the
\* one listed first first, after its only listing request.
C15_Witness ==
  /\ pc = "done"
  /\ Len(all) = 2
  /\ all[1].id # all[2].id
  /\ DetailIds = <<all[1].id, all[2].id>>
  /\ ListRequests = 1

\* C16: when the merge loop has ended, newCount is the number of distinct
\* listed ids the prior snapshot does not hold, refreshedCount the number
\* of listed ids it holds that were fetched again, and their sum the
\* number of detail requests of the run.
DetailRequests == Cardinality({k \in 1..Len(reqLog) : reqLog[k].kind = "detail"})

C16_Counts ==
  pc = "done" =>
    /\ newCount = Cardinality(ListedNow \ PriorIds)
    /\ refreshedCount =
         Cardinality({id \in ListedNow \cap PriorIds : DetailFetches(id) >= 1})
    /\ newCount + refreshedCount = DetailRequests

\* C17: login returns the identity exactly when the response has a success
\* status, no error and data; otherwise it fails with one error: the HTTP
\* error for a failure status whatever the body, else the TOTP-required
\* error for TOTP_REQUIRED with no one-time-password configured, else the
\* server-reported error, else the missing-data error.
LoginReturns(r) == r.ok /\ r.error = NoVal /\ r.data # None
LoginErrors ==
  {ErrLoginHttp, ErrLoginTotp, ErrLoginMissing} \cup
  {ErrLoginServer(e) : e \in {"TOTP_REQUIRED", "INVALID"}}

RECURSIVE Flatten(_)
Flatten(ss) == IF ss = << >> THEN << >> ELSE Head(ss) \o Flatten(Tail(ss))

\* The cookies set by the responses read before the k-th request was built.
CookiesBefore(k) == Flatten(SubSeq(setCookies, 1, k - 1))
NamesIn(cs) == {cs[i].name : i \in 1..Len(cs)}
LastValueIn(cs, name) ==
  cs[CHOOSE i \in 1..Len(cs) :
       cs[i].name = name /\ \A h \in (i + 1)..Len(cs) : cs[h].name # name].value

HoldsLastValues(j, cs) ==
  /\ {j[i].name : i \in 1..Len(j)} = NamesIn(cs)
  /\ \A i, h \in 1..Len(j) : i < h => j[i].name # j[h].name
  /\ \A i \in 1..Len(j) : j[i].value = LastValueIn(cs, j[i].name)

CarriesCookies(r, cs) ==
  IF cs = << >> THEN r.Cookie = None
  ELSE r.Cookie # None /\ HoldsLastValues(r.Cookie[1], cs)

C18_SessionThreading ==
  /\ pc # "failed" => HoldsLastValues(jar, Flatten(setCookies))
  /\ \A k \in 1..Len(reqLog) :
       LET cs == CookiesBefore(k)
       IN  /\ CarriesCookies(reqLog[k], cs)
           /\ "XSRF-TOKEN" \in NamesIn(cs) =>
                /\ reqLog[k].XXsrfToken # NoVal
                /\ reqLog[k].XXsrfToken = decodeURIComponent(LastValueIn(cs, "XSRF-TOKEN"))
                /\ reqLog[k].XCsrfToken = reqLog[k].XXsrfToken

\* C18, amended: the same, with the anti-forgery headers sent whenever the
\* anti-forgery cookie is held with a value that is not empty, and neither
\* of them otherwise.
C18_SessionThreadingNonEmpty ==
  /\ pc # "failed" => HoldsLastValues(jar, Flatten(setCookies))
  /\ \A k \in 1..Len(reqLog) :
       LET cs == CookiesBefore(k)
           sent == "XSRF-TOKEN" \in NamesIn(cs) /\ LastValueIn(cs, "XSRF-TOKEN") # ""
       IN  /\ CarriesCookies(reqLog[k], cs)
           /\ reqLog[k].XCsrfToken = reqLog[k].XXsrfToken
           /\ sent => reqLog[k].XXsrfToken = decodeURIComponent(LastValueIn(cs, "XSRF-TOKEN"))
           /\ sent => reqLog[k].XXsrfToken # LastValueIn(cs, "XSRF-TOKEN")
           /\ ~sent => reqLog[k].XXsrfToken = NoVal

\* C18's case: a detail request has left with the session cookie of the
\* login, which replaced the one of the warm-up, and with the cleared
\* anti-forgery cookie and no anti-forgery header.
C18_Witness ==
  /\ pc = "detail_wait"
  /\ warmCookies = Some(<<XsrfCleared, PreSessionCookie>>)
  /\ \E r \in inflight :
       /\ r.kind = "detail"
       /\ r.Cookie = Some(<<XsrfCleared, SessionCookie>>)
       /\ r.XXsrfToken = NoVal

\* C19: a run that finds no snapshot file, or one that does not parse,
\* does not fail for it: it fails only on a response; it goes on with no
\* stored entry, issues one detail request for every listed entry, in
\* order, counts every one as new, and writes the listed entries, each id
\* once, with the fields of the listing.
ResponseErrors ==
  LoginErrors \cup {"Warm-up failed", "VOD list failed", "file_info failed", "SyntaxError"}
WithoutSnapshot == fileAtStart.kind # "store"

C19_FirstRun ==
  WithoutSnapshot =>
    /\ pc = "failed" =>
         /\ err \in ResponseErrors
         /\ lastStatus[2] # "ok" \/ (loginResp # None /\ LoginFails(loginResp[1]))
    /\ pc \in {"list", "list_wait", "merge", "detail_wait", "done"} =>
         (existing = None /\ seen = {})
    /\ pc = "done" =>
         /\ exitCode = 0
         /\ DetailIds = AllIdsInOrder
         /\ newCount = Len(all)
         /\ refreshedCount = 0
         /\ WrittenIds = ListedNow
         /\ Len(file.vods) = Cardinality(ListedNow)
         /\ \A id \in ListedNow :
              /\ WrittenOf(id).title = FreshOf(id).title
              /\ WrittenOf(id).created_at = FreshOf(id).created_at
              /\ WrittenOf(id).files = RemoteFiles(id)

\* C19's case: a run that found a file that does not parse has written a
\* snapshot of the two entries listed.
C19_Witness ==
  /\ pc = "done"
  /\ fileAtStart.kind = "corrupt"
  /\ Len(all) = 2
  /\ all[1].id # all[2].id
  /\ Len(file.vods) = 2
  /\ newCount = 2

\* C20: a snapshot a run has written holds every entry the run listed with
\* a file list, which may be empty, and a filesFetchedAt; so the run after
\* it, against the same remote, issues a detail request for an entry of
\* that listing only when the file list it finds stored is empty.
RemoteListedIds ==
  IF IsArray(listing)
  THEN {Normalized(listing[1])[k].id : k \in 1..Len(Normalized(listing[1]))}
  ELSE {}

C20_ListedHaveFilesAndStamp ==
  /\ pc = "done" =>
       \A id \in ListedNow :
         /\ WrittenOf(id).files # None
         /\ WrittenOf(id).filesFetchedAt # NoNum
  /\ prevOut # None =>
       \A id \in RemoteListedIds :
         /\ id \in PriorIds
         /\ PriorOf(id).files # None
         /\ PriorOf(id).filesFetchedAt # NoNum
         /\ DetailFetches(id) >= 1 => PriorOf(id).files = Some(<< >>)

\* C20's case: the second of two runs has fetched again the one listed
\* entry it found stored with an empty file list, and not the other.
C20_Witness ==
  /\ pc = "done"
  /\ prevOut # None
  /\ \E id \in RemoteListedIds :
       DetailFetches(id) >= 1 /\ PriorOf(id).files = Some(<< >>)
  /\ \E id \in RemoteListedIds :
       DetailFetches(id) = 0 /\ PriorOf(id).files # Some(<< >>)

====
